---------------------------- MODULE Spec2Model ----------------------------
(***************************************************************************)
(* A model of the sector-biased RRT planner of src/rrt_planner.py          *)
(* (ImprovedRRT) together with the fallback of                             *)
(* MultiModalInteraction.get_feedback (src/multimodal_model.py).           *)
(*                                                                         *)
(* Numbers.  Coordinates, radii and step sizes are integers (points of a   *)
(* small grid).  Angles are kept in thousandths (45.0 is 45000); the code  *)
(* stores a sector's angles as plain floats that get_feedback computes in  *)
(* degrees and sample_in_sector hands to np.cos / np.sin, which read them  *)
(* as radians, so one number is read in both units.  Priorities are kept   *)
(* in tenths (0.8 is 8).  Node indices are the 0-based Python indices;     *)
(* the TLA+ sequence nodes holds index k at position k + 1.                *)
(***************************************************************************)
EXTENDS Integers, Sequences, FiniteSets

VARIABLES
    start,            \* self.start : Node
    goal,             \* self.goal : Node (its parent_id is assigned by plan)
    bounds,           \* self.bounds = (x_min, y_min, x_max, y_max)
    obstacles,        \* self.obstacles : sequence of (x, y, radius)
    step_size,        \* self.step_size
    max_iterations,   \* self.max_iterations
    nodes,            \* self.nodes : the tree
    current_sectors,  \* self.current_sectors
    pc,               \* where the caller of plan stands
    i,                \* the loop variable of plan (iterations begun so far)
    path,             \* the value plan returned (None until it returns one)
    ev,               \* what the last iteration of plan did
    redraw,           \* sample_in_sector has rejected a draw in this iteration
    fb_ok,            \* some feedback call so far returned the service's answer
    calls             \* how many times plan has been called on this object

config == <<start, bounds, obstacles, step_size, max_iterations>>
vars == <<start, goal, bounds, obstacles, step_size, max_iterations, nodes,
          current_sectors, pc, i, path, ev, redraw, fb_ok, calls>>

(***************************************************************************)
(* Bounds of the model.                                                    *)
(***************************************************************************)
GridMax == 2
MaxIter == 3
MaxCalls == 2

(***************************************************************************)
(* Program constants.                                                      *)
(***************************************************************************)
None == -1
NumSamples == 10

Abs(n) == IF n < 0 THEN -n ELSE n
Min(a, b) == IF a <= b THEN a ELSE b
Max(a, b) == IF a <= b THEN b ELSE a

(***************************************************************************)
(* Node(x, y, parent_id = None).  ref tells which object a tree entry is:  *)
(* "start" and "goal" entries are self.start and self.goal themselves      *)
(* (list entries are references), "new" entries are nodes plan created.    *)
(***************************************************************************)
Node(x, y, parent_id, ref) ==
    [x |-> x, y |-> y, parent_id |-> parent_id, ref |-> ref]

SectorConfig(center_angle, span_angle, priority) ==
    [center_angle |-> center_angle, span_angle |-> span_angle,
     priority |-> priority]


(***************************************************************************)
(* is_collision_free: for every obstacle, the 10 points                    *)
(* p1 + (p2 - p1) * t, t = k / 9 for k = 0..9 (np.linspace(0, 1, 10)), are *)
(* tested with sqrt(dx^2 + dy^2) <= r.  Both sides are compared here       *)
(* multiplied by 9 and squared, which is exact for r >= 0; for r < 0 the   *)
(* test is never true.                                                     *)
(***************************************************************************)
PointHitsObstacle(x1, y1, x2, y2, k, ob) ==
    LET d  == NumSamples - 1
        px == d * x1 + (x2 - x1) * k
        py == d * y1 + (y2 - y1) * k
    IN  /\ ob[3] >= 0
        /\ (px - d * ob[1]) * (px - d * ob[1]) + (py - d * ob[2]) * (py - d * ob[2])
              <= d * d * ob[3] * ob[3]

is_collision_free_in(obs, x1, y1, x2, y2) ==
    \A o \in 1..Len(obs) : \A k \in 0..(NumSamples - 1) :
        ~PointHitsObstacle(x1, y1, x2, y2, k, obs[o])

is_collision_free(x1, y1, x2, y2) ==
    is_collision_free_in(obstacles, x1, y1, x2, y2)

(***************************************************************************)
(* find_nearest_node: np.argmin over the squared distances, which is the   *)
(* first index holding the minimum.  The value is the 0-based index of the *)
(* node returned.                                                          *)
(***************************************************************************)
SqDist(n, point) ==
    (n.x - point[1]) * (n.x - point[1]) + (n.y - point[2]) * (n.y - point[2])

find_nearest_node_in(ns, point) ==
    (CHOOSE k \in 1..Len(ns) :
        /\ \A j \in 1..Len(ns) : SqDist(ns[k], point) <= SqDist(ns[j], point)
        /\ \A j \in 1..(k - 1) : SqDist(ns[j], point) > SqDist(ns[k], point)) - 1

find_nearest_node(point) == find_nearest_node_in(nodes, point)

(***************************************************************************)
(* Angles.  AtanTable holds atan(p / q) for the slopes the grid produces:  *)
(* in thousandths of a degree (deg) and in thousandths of a radian (rad).  *)
(***************************************************************************)
AtanTable ==
    { <<0, 1, 0, 0>>,
      <<1, 5, 11310, 197>>,  <<1, 4, 14036, 245>>,  <<1, 3, 18435, 322>>,
      <<2, 5, 21801, 381>>,  <<1, 2, 26565, 464>>,  <<3, 5, 30964, 540>>,
      <<2, 3, 33690, 588>>,  <<3, 4, 36870, 644>>,  <<4, 5, 38660, 675>>,
      <<1, 1, 45000, 785>>,
      <<5, 4, 51340, 896>>,  <<4, 3, 53130, 927>>,  <<3, 2, 56310, 983>>,
      <<5, 3, 59036, 1030>>, <<2, 1, 63435, 1107>>, <<5, 2, 68199, 1190>>,
      <<3, 1, 71565, 1249>>, <<4, 1, 75964, 1326>>, <<5, 1, 78690, 1373>>,
      <<1, 0, 90000, 1571>> }

AtanEntry(a, b) == CHOOSE e \in AtanTable : a * e[2] = b * e[1]

\* np.arctan2(dy, dx); unit 3 gives thousandths of a degree, unit 4 of a radian.
Arctan2(dy, dx, unit) ==
    LET half == IF unit = 3 THEN 180000 ELSE 3142
        base == AtanEntry(Abs(dy), Abs(dx))[unit]
    IN  IF dx = 0 /\ dy = 0 THEN 0
        ELSE IF dx >= 0 THEN (IF dy >= 0 THEN base ELSE -base)
        ELSE (IF dy >= 0 THEN half - base ELSE -(half - base))

\* np.degrees(np.arctan2(dy, dx))
DegreesArctan2(dy, dx) == Arctan2(dy, dx, 3)

(***************************************************************************)
(* sample_in_sector.  One draw takes distance from uniform(0, step_size)   *)
(* and angle from center_angle + uniform(-span/2, span/2), and proposes    *)
(* nodes[-1] + distance * (cos angle, sin angle); cos and sin read the     *)
(* angle as radians.  SectorDraws is the set of grid points one draw can   *)
(* propose; the loop returns the first proposal inside the bounds.         *)
(***************************************************************************)
InAngleRange(theta, sector) ==
    LET turn == 6283
        h  == Abs(sector.span_angle) \div 2
        lo == sector.center_angle - h
        hi == sector.center_angle + h
    IN  ((hi - theta) \div turn) * turn + theta >= lo

Offsets(step) ==
    { d \in (-Abs(step)..Abs(step)) \X (-Abs(step)..Abs(step)) :
        d[1] * d[1] + d[2] * d[2] <= step * step }

SectorDraws(origin, sector, step) ==
    LET sgn == IF step < 0 THEN -1 ELSE 1
    IN  { <<origin.x + d[1], origin.y + d[2]>> : d \in
            { d \in Offsets(step) :
                \/ d = <<0, 0>>
                \/ InAngleRange(Arctan2(sgn * d[2], sgn * d[1], 4), sector) } }

InBounds(bs, p) ==
    /\ bs[1] <= p[1] /\ p[1] <= bs[3]
    /\ bs[2] <= p[2] /\ p[2] <= bs[4]

sample_in_sector(sector) ==
    { p \in SectorDraws(nodes[Len(nodes)], sector, step_size) : InBounds(bounds, p) }

RejectedDraws(sector) ==
    { p \in SectorDraws(nodes[Len(nodes)], sector, step_size) : ~InBounds(bounds, p) }

\* np.random.uniform(low, high) draws between the two whichever is larger.
Uniform(low, high) == Min(low, high)..Max(low, high)

GlobalSample == Uniform(bounds[1], bounds[3]) \X Uniform(bounds[2], bounds[4])

(***************************************************************************)
(* Sector selection of plan: np.random.choice(current_sectors,             *)
(* p = weights / np.sum(weights)).  With a zero sum every p is NaN, with   *)
(* mixed signs some p is negative: both make np.random.choice raise        *)
(* ValueError.  Otherwise any sector of positive probability can be drawn. *)
(***************************************************************************)
RECURSIVE SumPriority(_)
SumPriority(sectors) ==
    IF sectors = <<>> THEN 0
    ELSE sectors[1].priority + SumPriority(Tail(sectors))

ChoiceRaises(sectors) ==
    LET total == SumPriority(sectors)
    IN  \/ total = 0
        \/ \E k \in 1..Len(sectors) : sectors[k].priority * total < 0

ChoosableSectors(sectors) ==
    { sectors[k] : k \in { k \in 1..Len(sectors) :
                             sectors[k].priority * SumPriority(sectors) > 0 } }

(***************************************************************************)
(* MultiModalInteraction.get_feedback.  The request, the decoding of the   *)
(* reply and the lookup of its 'sectors' run inside try; any exception     *)
(* there is caught and the default list is returned instead.  answer is    *)
(* what the try block yields: [ok |-> FALSE] when it raised, or the        *)
(* sectors of the reply.                                                   *)
(***************************************************************************)
\* A slip that would take the bearing from the goal back to the node.
DefaultFeedbackReversed(current_node, goal_node) ==
    << [center_angle |-> DegreesArctan2(current_node.y - goal_node.y,
                                        current_node.x - goal_node.x),
        span_angle   |-> 45 * 1000,
        priority     |-> 8] >>

DefaultFeedback(current_node, goal_node) ==
    << [center_angle |-> DegreesArctan2(goal_node.y - current_node.y,
                                        goal_node.x - current_node.x),
        span_angle   |-> 45 * 1000,
        priority     |-> 8] >>

get_feedback(current_node, goal_node, answer) ==
    IF answer.ok THEN answer.sectors
    ELSE DefaultFeedback(current_node, goal_node)

\* MultiModalInteraction._convert_to_sector_config
_convert_to_sector_config(sectors) ==
    [k \in 1..Len(sectors) |->
        SectorConfig(sectors[k].center_angle, sectors[k].span_angle,
                     sectors[k].priority)]

\* feedback_function of main.py: the callable handed to plan.
feedback_function(current_node, goal_node, answer) ==
    _convert_to_sector_config(get_feedback(current_node, goal_node, answer))

\* The replies of the advisory service the model draws from.
Replies ==
    { <<>>,
      << [center_angle |-> 0, span_angle |-> 45 * 1000, priority |-> 0] >>,
      << [center_angle |-> 0, span_angle |-> 1000, priority |-> 5],
         [center_angle |-> 90 * 1000, span_angle |-> 45 * 1000, priority |-> 5] >> }

Answers == { [ok |-> FALSE, sectors |-> <<>>] }
              \cup { [ok |-> TRUE, sectors |-> r] : r \in Replies }

(***************************************************************************)
(* extract_path.  The walk follows parent_id from nodes[-1] until a node   *)
(* without parent, collecting the nodes passed; then self.start is         *)
(* appended and the list reversed.  A walk that has taken more steps than  *)
(* the tree has entries has revisited an entry and never ends: the walk    *)
(* is cut there and reported as not returning.                             *)
(***************************************************************************)
RECURSIVE Reverse(_)
Reverse(s) == IF s = <<>> THEN <<>> ELSE Append(Reverse(Tail(s)), s[1])

RECURSIVE ExtractWalk(_, _, _, _)
ExtractWalk(ns, current_node, collected, fuel) ==
    IF current_node.parent_id = None
    THEN [returns |-> TRUE, collected |-> collected]
    ELSE IF fuel = 0
    THEN [returns |-> FALSE, collected |-> collected]
    ELSE ExtractWalk(ns, ns[current_node.parent_id + 1],
                     Append(collected, current_node), fuel - 1)

\* A slip that would leave out the final path[::-1].
extract_path_unreversed(ns, root) ==
    LET w == ExtractWalk(ns, ns[Len(ns)], <<>>, Len(ns) + 1)
    IN  [returns |-> w.returns,
         steps   |-> Len(w.collected),
         path    |-> IF w.returns THEN Append(w.collected, root) ELSE <<>>]

extract_path_of(ns, root) ==
    LET w == ExtractWalk(ns, ns[Len(ns)], <<>>, Len(ns) + 1)
    IN  [returns |-> w.returns,
         steps   |-> Len(w.collected),
         path    |-> IF w.returns THEN Reverse(Append(w.collected, root))
                     ELSE <<>>]

extract_path(ns) == extract_path_of(ns, start)

(***************************************************************************)
(* self.goal.parent_id = p; self.nodes.append(self.goal).  Entries of the  *)
(* tree that are self.goal (from an earlier call of plan) are the same     *)
(* object, so they show the new parent_id too.                             *)
(***************************************************************************)
AppendGoal(ns, g, p) ==
    [k \in 1..(Len(ns) + 1) |->
        IF k = Len(ns) + 1 \/ ns[k].ref = "goal"
        THEN Node(g.x, g.y, p, "goal")
        ELSE ns[k]]

NoEvent ==
    [extended |-> FALSE, goal_tested |-> FALSE, feedback |-> "none",
     raised |-> FALSE]

(***************************************************************************)
(* ImprovedRRT.__init__: the fields are stored as given, nothing is        *)
(* checked.                                                                *)
(***************************************************************************)
BoundsChoices == { <<0, 0, GridMax, GridMax>>, <<GridMax, 0, 0, GridMax>> }
StartChoices == { <<0, 0>>, <<-1, 0>> }
GoalChoices == { <<0, GridMax>>, <<1, 1>>, <<GridMax + 1, GridMax>> }
ObstacleChoices == { <<>>, << <<1, 1, 1>> >> }
StepChoices == { 0, 2 }
IterChoices == 0..MaxIter

Init ==
    /\ \E s \in StartChoices : start = Node(s[1], s[2], None, "start")
    /\ \E g \in GoalChoices : goal = Node(g[1], g[2], None, "goal")
    /\ bounds \in BoundsChoices
    /\ obstacles \in ObstacleChoices
    /\ step_size \in StepChoices
    /\ max_iterations \in IterChoices
    /\ nodes = <<start>>
    /\ current_sectors = <<>>
    /\ pc = "RUNNING"
    /\ i = 0
    /\ path = <<>>
    /\ ev = NoEvent
    /\ redraw = 0
    /\ fb_ok = FALSE
    /\ calls = 1

(***************************************************************************)
(* One iteration of the loop of plan, from the choice of the sector to the *)
(* update of the sectors.                                                  *)
(***************************************************************************)
\* A slip that would store the index find_nearest_node returned instead.
NewNodeParentNearest(ns, nearest) == nearest

NewNodeParent(ns, nearest) == Len(ns) - 1

\* A slip that would move the feedback call out of the `if` of line 94.
FeedbackAfterCollision(near) ==
    \E answer \in Answers :
        /\ current_sectors' = feedback_function(near, goal, answer)
        /\ fb_ok' = (fb_ok \/ answer.ok)
        /\ ev' = [NoEvent EXCEPT
                    !.feedback = IF answer.ok THEN "answered" ELSE "failed"]
        /\ UNCHANGED <<goal, nodes, pc, path>>

\* The segment from the nearest node collides: the body of the `if` is skipped.
ExtensionFails(near) ==
    /\ ev' = NoEvent
    /\ UNCHANGED <<goal, nodes, current_sectors, pc, path, fb_ok>>

\* The sectors the draw of this iteration can come from.
DrawSectors ==
    IF redraw # 0 THEN { current_sectors[redraw] }
    ELSE ChoosableSectors(current_sectors)

SampledPoints ==
    IF current_sectors # <<>>
    THEN UNION { sample_in_sector(s) : s \in DrawSectors }
    ELSE GlobalSample

Extend(sampled_point) ==
    LET nearest  == find_nearest_node(sampled_point)
        near     == nodes[nearest + 1]
        new_node == Node(sampled_point[1], sampled_point[2],
                         NewNodeParent(nodes, nearest), "new")
        grown    == Append(nodes, new_node)
    IN  IF ~is_collision_free(near.x, near.y, sampled_point[1], sampled_point[2])
        THEN ExtensionFails(near)
        ELSE IF is_collision_free(new_node.x, new_node.y, goal.x, goal.y)
        THEN LET tree == AppendGoal(grown, goal, Len(grown) - 1)
                 res  == extract_path(tree)
             IN  /\ goal' = [goal EXCEPT !.parent_id = Len(grown) - 1]
                 /\ nodes' = tree
                 /\ pc' = IF res.returns THEN "SUCCEEDED" ELSE "HUNG"
                 /\ path' = res.path
                 /\ ev' = [NoEvent EXCEPT !.extended = TRUE, !.goal_tested = TRUE]
                 /\ UNCHANGED <<current_sectors, fb_ok>>
        ELSE \E answer \in Answers :
                 /\ nodes' = grown
                 /\ current_sectors' = feedback_function(new_node, goal, answer)
                 /\ fb_ok' = (fb_ok \/ answer.ok)
                 /\ ev' = [NoEvent EXCEPT !.extended = TRUE, !.goal_tested = TRUE,
                             !.feedback = IF answer.ok THEN "answered" ELSE "failed"]
                 /\ UNCHANGED <<goal, pc, path>>

PlanIteration ==
    /\ pc = "RUNNING"
    /\ i < max_iterations
    /\ IF current_sectors # <<>> /\ ChoiceRaises(current_sectors)
       THEN /\ pc' = "RAISED"
            /\ ev' = [NoEvent EXCEPT !.raised = TRUE]
            /\ UNCHANGED <<goal, nodes, current_sectors, path, fb_ok>>
       ELSE \E sampled_point \in SampledPoints : Extend(sampled_point)
    /\ i' = i + 1
    /\ redraw' = 0
    /\ UNCHANGED <<config, calls>>

\* sample_in_sector draws a point outside the bounds and loops.
SampleRedraw ==
    /\ pc = "RUNNING"
    /\ i < max_iterations
    /\ current_sectors # <<>>
    /\ ~ChoiceRaises(current_sectors)
    /\ \E k \in 1..Len(current_sectors) :
          /\ current_sectors[k] \in DrawSectors
          /\ RejectedDraws(current_sectors[k]) # {}
          /\ redraw' = k
    /\ UNCHANGED <<config, goal, nodes, current_sectors, pc, i, path, ev, fb_ok,
                   calls>>

\* The loop of plan has run max_iterations times: return None.
PlanExhausted ==
    /\ pc = "RUNNING"
    /\ i >= max_iterations
    /\ pc' = "EXHAUSTED"
    /\ path' = <<>>
    /\ UNCHANGED <<config, goal, nodes, current_sectors, i, ev, redraw, fb_ok,
                   calls>>

\* plan is called again on the same object after it returned.
PlanAgain ==
    /\ pc \in {"SUCCEEDED", "EXHAUSTED"}
    /\ calls < MaxCalls
    /\ calls' = calls + 1
    /\ pc' = "RUNNING"
    /\ i' = 0
    /\ path' = <<>>
    /\ ev' = NoEvent
    /\ UNCHANGED <<config, goal, nodes, current_sectors, redraw, fb_ok>>

Next == PlanIteration \/ SampleRedraw \/ PlanExhausted

Spec == Init /\ [][Next]_vars

NextReuse == PlanIteration \/ SampleRedraw \/ PlanExhausted \/ PlanAgain

SpecReuse == Init /\ [][NextReuse]_vars

(***************************************************************************)
(* Properties.                                                             *)
(***************************************************************************)
LastNode == nodes[Len(nodes)]

\* What section 6 of the specification asks of the construction parameters.
ValidConfiguration ==
    /\ bounds[1] < bounds[3]
    /\ bounds[2] < bounds[4]
    /\ step_size > 0
    /\ max_iterations > 0
    /\ InBounds(bounds, <<start.x, start.y>>)
    /\ InBounds(bounds, <<goal.x, goal.y>>)

\* C1: with a valid configuration, in every state, for every tree node n with parent index p, the
\* segment from node p to node n is collision-free under is_collision_free.
C1_ParentSegmentsCollisionFree ==
    ValidConfiguration =>
        \A k \in 1..Len(nodes) :
            nodes[k].parent_id # None =>
                is_collision_free(nodes[nodes[k].parent_id + 1].x,
                                  nodes[nodes[k].parent_id + 1].y,
                                  nodes[k].x, nodes[k].y)

\* C2: with a valid configuration, every node plan created has as parent index the index of the node
\* find_nearest_node returned for it, the earliest of the nodes of least
\* squared distance among those the tree held when it was appended.
C2_ParentIsNearest ==
    ValidConfiguration =>
        \A k \in 2..Len(nodes) :
            nodes[k].ref = "new" =>
                nodes[k].parent_id =
                    find_nearest_node_in(SubSeq(nodes, 1, k - 1),
                                         <<nodes[k].x, nodes[k].y>>)

\* C3: when plan has returned a path, the path is non-empty, its first
\* element has the start coordinates and no parent, its last element has
\* the goal coordinates, and the goal node is the last node of the tree.
C3_PathFromStartToGoal ==
    pc = "SUCCEEDED" =>
        /\ path # <<>>
        /\ path[1].x = start.x /\ path[1].y = start.y
        /\ path[1].parent_id = None
        /\ path[Len(path)].x = goal.x /\ path[Len(path)].y = goal.y
        /\ LastNode.ref = "goal"
        /\ LastNode.x = goal.x /\ LastNode.y = goal.y

C3_Witness ==
    /\ ValidConfiguration
    /\ pc = "SUCCEEDED"
    /\ Len(path) >= 4
    /\ <<start.x, start.y>> # <<goal.x, goal.y>>

\* C4: with a valid configuration, a call of plan in which no node was
\* connected to the goal stops only by returning None after exactly
\* max_iterations iterations, the goal not in the tree and without parent.
C4_ExhaustsAfterMaxIterations ==
    (ValidConfiguration /\ pc \in {"EXHAUSTED", "RAISED"}) =>
        /\ pc = "EXHAUSTED"
        /\ i = max_iterations
        /\ path = <<>>
        /\ \A k \in 1..Len(nodes) : nodes[k].ref # "goal"
        /\ goal.parent_id = None

\* C5: as long as every feedback call has failed, plan raises no error, runs
\* no more than max_iterations iterations, and the redraw loop of
\* sample_in_sector has a point inside the bounds to return.
C5_NoCrashNoStall ==
    ~fb_ok =>
        /\ pc \notin {"RAISED", "HUNG"}
        /\ i <= Max(max_iterations, 0)
        /\ (pc = "RUNNING" /\ i < max_iterations /\ current_sectors # <<>>) =>
              /\ ~ChoiceRaises(current_sectors)
              /\ \A s \in DrawSectors : sample_in_sector(s) # {}

\* The statement of C5 restricted to the configurations section 6 of the
\* specification admits; it holds of the code.
C5_NoCrashNoStallWhenValid == ValidConfiguration => C5_NoCrashNoStall

\* The sector a failed feedback call is to leave, with the given priority.
FallbackInstalled(priority) ==
    /\ Len(current_sectors') = 1
    /\ current_sectors'[1].center_angle =
          DegreesArctan2(goal.y - nodes'[Len(nodes')].y,
                         goal.x - nodes'[Len(nodes')].x)
    /\ current_sectors'[1].span_angle = 45 * 1000
    /\ current_sectors'[1].priority = priority
    /\ pc' = "RUNNING"
    /\ Len(nodes') = Len(nodes) + 1
    /\ SubSeq(nodes', 1, Len(nodes)) = nodes
    /\ nodes'[Len(nodes')].ref = "new"
    /\ goal' = goal

FailedFeedbackStep == i' = i + 1 /\ ev'.feedback = "failed"

C7_InvalidConfigurationNeverPlans ==
    ~ValidConfiguration => (i = 0 /\ pc = "RUNNING" /\ nodes = <<start>>)

\* C8: with a valid configuration, sector selection never raises because the priorities of a non-empty
\* sector set sum to zero.
C8_ZeroSumNeverRaises ==
    ValidConfiguration =>
        ~(/\ pc = "RAISED"
          /\ current_sectors # <<>>
          /\ SumPriority(current_sectors) = 0)

\* C9: with a valid configuration, in every state, also after plan is called again, index 0 is the start
\* node without parent, every other node's parent index is a strictly
\* earlier index, and the walk of extract_path ends.
C9_ParentsPointBackwards ==
    ValidConfiguration =>
        /\ nodes[1].ref = "start" /\ nodes[1].parent_id = None
        /\ \A k \in 2..Len(nodes) :
              /\ nodes[k].parent_id # None
              /\ 0 <= nodes[k].parent_id /\ nodes[k].parent_id < k - 1
        /\ pc # "HUNG"
        /\ ExtractWalk(nodes, LastNode, <<>>, Len(nodes) + 1).returns

\* C10: an iteration that appends nothing leaves the tree and the sector set
\* as they were, makes no goal test and no feedback call, and leaves plan
\* running; the feedback is called, and the sector set becomes its output,
\* exactly in the iterations that appended a node whose segment to the goal
\* collides.
IterationStep == i' = i + 1 /\ pc' # "RAISED"

AppendedUnconnected ==
    /\ Len(nodes') = Len(nodes) + 1
    /\ nodes'[Len(nodes')].ref = "new"
    /\ ~is_collision_free(nodes'[Len(nodes')].x, nodes'[Len(nodes')].y,
                          goal.x, goal.y)

C10_FailedExtensionIsNoOp ==
    [][IterationStep =>
        /\ (nodes' = nodes =>
              /\ current_sectors' = current_sectors
              /\ ~ev'.goal_tested
              /\ ev'.feedback = "none"
              /\ pc' = "RUNNING"
              /\ goal' = goal)
        /\ (ev'.feedback # "none" <=> AppendedUnconnected)
        /\ (ev'.feedback # "none" =>
              \E a \in Answers :
                  current_sectors' = feedback_function(nodes'[Len(nodes')], goal, a))
      ]_vars

C10_Witness ==
    /\ ValidConfiguration
    /\ pc = "RUNNING"
    /\ i = 2
    /\ Len(nodes) = 2
    /\ ev = NoEvent
    /\ Len(current_sectors) = 2

\* C11: within one call of plan on a fresh planner, every node at index
\* k >= 1 has parent index k - 1, the tree never holds more than
\* max_iterations + 2 nodes, and a returned path is the whole tree, every
\* node once and in insertion order.
C11_TreeIsChain ==
    /\ \A k \in 2..Len(nodes) : nodes[k].parent_id = k - 2
    /\ Len(nodes) <= Max(max_iterations, 0) + 2
    /\ pc = "SUCCEEDED" =>
          /\ path = nodes
          /\ Len(path) = Len(nodes)

C11_Witness ==
    /\ ValidConfiguration
    /\ pc = "SUCCEEDED"
    /\ Len(nodes) = 4
    /\ find_nearest_node_in(SubSeq(nodes, 1, 2), <<nodes[3].x, nodes[3].y>>) = 0
=============================================================================
